---- MODULE Spec2Model ----
(***************************************************************************)
(* Model of hw4/WarClans612/_matrix.cpp: the Matrix, Block and Tiler       *)
(* classes and the multiplication strategies multiply_naive, multiply_mkl  *)
(* and multiply_tile.                                                      *)
(*                                                                         *)
(* A std::vector<double> is a sequence; the element with flat index idx    *)
(* (0-based, as in the source) is buf[idx + 1].  Element values are small  *)
(* integers, on which double arithmetic is exact.  All sizes stay far      *)
(* below 2^31, so the size_t / int conversions of the source are exact.    *)
(***************************************************************************)
EXTENDS Integers, Sequences, FiniteSets, TLC

\* Bounds of the model.
MaxRows == 2
MaxInner == 2
MaxCols == 2
MaxVal == 3
MaxTile == 3
MaxPad == 2

Vals == 0..MaxVal

RECURSIVE SumSeq(_)
\* v = 0; for (...) v += term;  the terms are added in source order.
SumSeq(s) == IF Len(s) = 0 THEN 0 ELSE SumSeq(SubSeq(s, 1, Len(s) - 1)) + s[Len(s)]

Zeros(n) == [k \in 1..n |-> 0]

(***************************************************************************)
(* std::vector::at                                                         *)
(***************************************************************************)
\* at(idx) throws std::out_of_range unless idx < size().
InRange(buf, idx) == idx >= 0 /\ idx < Len(buf)

\* The element at(idx) yields when it does not throw.  Every caller decides
\* with InRange whether the access throws; the 0 is never observed.
At(buf, idx) == IF InRange(buf, idx) THEN buf[idx + 1] ELSE 0

(***************************************************************************)
(* class Matrix                                                            *)
(***************************************************************************)
\* Matrix::index
index(m, row, col) == row * m.ncol + col

\* Matrix::Matrix(size_t nrow, size_t ncol)
MatrixSized(nrow, ncol) == [nrow |-> nrow, ncol |-> ncol, buf |-> Zeros(nrow * ncol)]

\* PadCopy reading the source with the row stride of the new matrix
\* (base_s = i*m_ncol).
PadCopyNewStride(other, x_pad, y_pad) ==
    LET nrow == other.nrow + x_pad
        ncol == other.ncol + y_pad
        inside(i, j) == ~(i >= other.nrow \/ j >= other.ncol)
    IN  [ok |-> \A i \in 0..(nrow - 1), j \in 0..(ncol - 1) :
                    inside(i, j) => InRange(other.buf, i * ncol + j),
         m  |-> [nrow |-> nrow, ncol |-> ncol,
                 buf  |-> [p \in 1..(nrow * ncol) |->
                            LET i == (p - 1) \div ncol
                                j == (p - 1) % ncol
                            IN  IF inside(i, j)
                                THEN At(other.buf, i * ncol + j)
                                ELSE 0]]]

\* Matrix::Matrix(Matrix const & other, int x_pad, int y_pad).  The writes
\* m_buffer.at(base_t + j) are inside the new buffer by construction; the
\* reads other.m_buffer.at(base_s + j) are the ones that can throw.
PadCopy(other, x_pad, y_pad) ==
    LET nrow == other.nrow + x_pad
        ncol == other.ncol + y_pad
        inside(i, j) == ~(i >= other.nrow \/ j >= other.ncol)
    IN  [ok |-> \A i \in 0..(nrow - 1), j \in 0..(ncol - 1) :
                    inside(i, j) => InRange(other.buf, i * other.ncol + j),
         m  |-> [nrow |-> nrow, ncol |-> ncol,
                 buf  |-> [p \in 1..(nrow * ncol) |->
                            LET i == (p - 1) \div ncol
                                j == (p - 1) % ncol
                            IN  IF inside(i, j)
                                THEN At(other.buf, i * other.ncol + j)
                                ELSE 0]]]

\* MoveNew without the swap: the new matrix keeps its zero buffer.
MoveNewNoSwap(other) == [nrow |-> other.nrow, ncol |-> other.ncol,
                         buf  |-> Zeros(other.nrow * other.ncol)]

\* MoveOld as a move of the vector would leave it: the buffer emptied, the
\* dimensions kept.
MoveOldEmptied(other) == [nrow |-> other.nrow, ncol |-> other.ncol, buf |-> << >>]

\* Matrix::Matrix(Matrix && other): the new matrix is built with a zero
\* buffer of other.m_nrow * other.m_ncol elements, then the buffers are
\* swapped.  new is the constructed matrix, old is other after the call.
MoveNew(other) == [nrow |-> other.nrow, ncol |-> other.ncol, buf |-> other.buf]

MoveOld(other) == [nrow |-> other.nrow, ncol |-> other.ncol,
                   buf  |-> Zeros(other.nrow * other.ncol)]

RECURSIVE Flatten(_)
\* for (const auto &v: other) m_buffer.insert(m_buffer.end(), v.begin(), v.end());
Flatten(rows) == IF Len(rows) = 0 THEN << >>
                 ELSE Flatten(SubSeq(rows, 1, Len(rows) - 1)) \o rows[Len(rows)]

\* Matrix::Matrix(std::vector<std::vector<double>> const & other), for a
\* non-empty other (other[0] exists).
FromNested(rows) == [nrow |-> Len(rows), ncol |-> Len(rows[1]), buf |-> Flatten(rows)]

\* Unpad with the column padding left in place (y = m_ncol).
UnpadRowsOnly(m, x_pad, y_pad) ==
    LET x == m.nrow - x_pad
        y == m.ncol
    IN  [ok |-> \A i \in 0..(x - 1), j \in 0..(y - 1) : InRange(m.buf, i * m.ncol + j),
         m  |-> [nrow |-> x, ncol |-> y,
                 buf  |-> [p \in 1..(x * y) |->
                            At(m.buf, ((p - 1) \div y) * m.ncol + ((p - 1) % y))]]]

\* Matrix::unpad(int x_pad, int y_pad), for x_pad <= m_nrow and y_pad <= m_ncol.
\* The reads m_buffer.at(base_s + j) can throw; then the matrix is unchanged.
Unpad(m, x_pad, y_pad) ==
    LET x == m.nrow - x_pad
        y == m.ncol - y_pad
    IN  [ok |-> \A i \in 0..(x - 1), j \in 0..(y - 1) : InRange(m.buf, i * m.ncol + j),
         m  |-> [nrow |-> x, ncol |-> y,
                 buf  |-> [p \in 1..(x * y) |->
                            At(m.buf, ((p - 1) \div y) * m.ncol + ((p - 1) % y))]]]

(***************************************************************************)
(* class Block                                                             *)
(***************************************************************************)
\* Block::Block(size_t N)
BlockNew(N) == [NDIM |-> N, buf |-> Zeros(N * N)]

\* Block::operator= (double v)
BlockFill(b, v) == [b EXCEPT !.buf = [k \in 1..Len(b.buf) |-> v]]

\* Block::operator() (size_t row, size_t col)
BlockIndex(b, row, col) == row * b.NDIM + col

\* SaveTarget with the block's dimension as the row stride of mat.
SaveTargetBlockStride(b, mat, it0, jt0, i, j) == (it0 + i) * b.NDIM + jt0 + j

\* Block::save: the flat indices of mat it writes, as pairs <<i, j>> |-> index.
SaveTarget(b, mat, it0, jt0, i, j) == (it0 + i) * mat.ncol + jt0 + j

\* Block::save(Matrix &mat, size_t it, size_t jt)
BlockSave(b, mat, it0, jt0) ==
    LET N == b.NDIM
        hits(idx) == {ij \in (0..(N - 1)) \X (0..(N - 1)) :
                         SaveTarget(b, mat, it0, jt0, ij[1], ij[2]) = idx}
        add(idx) == SumSeq([q \in 1..(N * N) |->
                              IF SaveTarget(b, mat, it0, jt0, (q - 1) \div N, (q - 1) % N) = idx
                              THEN At(b.buf, q - 1) ELSE 0])
    IN  [ok |-> \A i \in 0..(N - 1), j \in 0..(N - 1) :
                    /\ InRange(mat.buf, SaveTarget(b, mat, it0, jt0, i, j))
                    /\ InRange(b.buf, i * N + j),
         m  |-> [mat EXCEPT !.buf = [p \in 1..Len(mat.buf) |-> mat.buf[p] + add(p - 1)]],
         n  |-> [p \in 1..Len(mat.buf) |-> Cardinality(hits(p - 1))]]

(***************************************************************************)
(* class Tiler                                                             *)
(***************************************************************************)
\* Tiler::Tiler(size_t N)
TilerNew(N) == [NDIM |-> N, m_mat1 |-> BlockNew(N), m_mat2 |-> BlockNew(N)]

\* Tiler::load: m_mat1(base_t1 + j) = mat1(base_s1 + j), row-major.
LoadLhs(t, mat1, it1, jt1) ==
    LET N == t.NDIM
    IN  [t.m_mat1 EXCEPT !.buf = [p \in 1..Len(t.m_mat1.buf) |->
            LET i == (p - 1) \div N
                j == (p - 1) % N
            IN  At(mat1.buf, (it1 + i) * mat1.ncol + jt1 + j)]]

\* LoadRhs without the transposition: m_mat2(base_t1 + j) = mat2(base_s2 + j).
LoadRhsRowMajor(t, mat2, it2, jt2) ==
    LET N == t.NDIM
    IN  [t.m_mat2 EXCEPT !.buf = [p \in 1..Len(t.m_mat2.buf) |->
            LET i == (p - 1) \div N
                j == (p - 1) % N
            IN  At(mat2.buf, (it2 + i) * mat2.ncol + jt2 + j)]]

\* Tiler::load: m_mat2(base_t2 + i) = mat2(base_s2 + j), with base_t2 = j*NDIM.
LoadRhs(t, mat2, it2, jt2) ==
    LET N == t.NDIM
    IN  [t.m_mat2 EXCEPT !.buf = [p \in 1..Len(t.m_mat2.buf) |->
            LET j == (p - 1) \div N
                i == (p - 1) % N
            IN  At(mat2.buf, (it2 + i) * mat2.ncol + jt2 + j)]]

\* Tiler::load(mat1, it1, jt1, mat2, it2, jt2)
TilerLoad(t, mat1, it1, jt1, mat2, it2, jt2) ==
    LET N == t.NDIM
    IN  [ok |-> \A i \in 0..(N - 1), j \in 0..(N - 1) :
                    /\ InRange(mat1.buf, (it1 + i) * mat1.ncol + jt1 + j)
                    /\ InRange(mat2.buf, (it2 + i) * mat2.ncol + jt2 + j)
                    /\ InRange(t.m_mat1.buf, i * N + j)
                    /\ InRange(t.m_mat2.buf, j * N + i),
         t  |-> [t EXCEPT !.m_mat1 = LoadLhs(t, mat1, it1, jt1),
                          !.m_mat2 = LoadRhs(t, mat2, it2, jt2)]]

\* TileDot reading the right block as if it were row-major: m_mat2(j, k).
TileDotRowMajor(t, i, k) ==
    SumSeq([q \in 1..t.NDIM |->
              At(t.m_mat1.buf, BlockIndex(t.m_mat1, i, q - 1))
            * At(t.m_mat2.buf, BlockIndex(t.m_mat2, q - 1, k))])

\* Tiler::multiply: v += m_mat1(i, j) * m_mat2(k, j)
TileDot(t, i, k) ==
    SumSeq([q \in 1..t.NDIM |->
              At(t.m_mat1.buf, BlockIndex(t.m_mat1, i, q - 1))
            * At(t.m_mat2.buf, BlockIndex(t.m_mat2, k, q - 1))])

\* Tiler::multiply(Block &m_ret)
TilerMultiply(t, m_ret) ==
    LET N == t.NDIM
    IN  [ok |-> \A i \in 0..(N - 1), k \in 0..(N - 1) :
                    /\ InRange(m_ret.buf, BlockIndex(m_ret, i, k))
                    /\ \A j \in 0..(N - 1) :
                           /\ InRange(t.m_mat1.buf, BlockIndex(t.m_mat1, i, j))
                           /\ InRange(t.m_mat2.buf, BlockIndex(t.m_mat2, k, j)),
         b  |-> [m_ret EXCEPT !.buf = [p \in 1..Len(m_ret.buf) |->
                    m_ret.buf[p] + TileDot(t, (p - 1) \div N, (p - 1) % N)]]]

(***************************************************************************)
(* Multiplication strategies                                               *)
(***************************************************************************)
\* ShapeMismatch comparing the row counts.
ShapeMismatchRows(mat1, mat2) == mat1.nrow # mat2.nrow

\* validate_multiplication: the condition under which it throws.
ShapeMismatch(mat1, mat2) == mat1.ncol # mat2.nrow

\* multiply_naive, after validation: v += mat1(i,j) * mat2(j,k); ret(i,k) = v.
MultiplyNaive(mat1, mat2) ==
    LET nrow == mat1.nrow
        ncol == mat2.ncol
    IN  [ok |-> \A i \in 0..(nrow - 1), k \in 0..(ncol - 1), j \in 0..(mat1.ncol - 1) :
                    /\ InRange(mat1.buf, index(mat1, i, j))
                    /\ InRange(mat2.buf, index(mat2, j, k)),
         m  |-> [nrow |-> nrow, ncol |-> ncol,
                 buf  |-> [p \in 1..(nrow * ncol) |->
                            LET i == (p - 1) \div ncol
                                k == (p - 1) % ncol
                            IN  SumSeq([q \in 1..mat1.ncol |->
                                          At(mat1.buf, index(mat1, i, q - 1))
                                        * At(mat2.buf, index(mat2, q - 1, k))])]]]

\* cblas_dgemm(CblasRowMajor, CblasNoTrans, CblasNoTrans, M, N, K, 1.0,
\*             A, lda, B, ldb, 0.0, C, ldc):  C = 1.0 * A * B + 0.0 * C.
Gemm(M, N, K, A, lda, B, ldb, C, ldc) ==
    [p \in 1..Len(C) |->
        LET i == (p - 1) \div ldc
            k == (p - 1) % ldc
        IN  IF i < M /\ k < N
            THEN 1 * SumSeq([q \in 1..K |-> At(A, i * lda + q - 1) * At(B, (q - 1) * ldb + k)])
                 + 0 * C[p]
            ELSE C[p]]

\* multiply_mkl, after validation.  Where a dimension is 0 the routine
\* computes nothing and ret keeps its zeros, which is the product as well.
MultiplyMkl(mat1, mat2) ==
    LET ret0 == MatrixSized(mat1.nrow, mat2.ncol)
    IN  [ret0 EXCEPT !.buf = Gemm(mat1.nrow, mat2.ncol, mat1.ncol,
                                  mat1.buf, mat1.ncol, mat2.buf, mat2.ncol,
                                  ret0.buf, mat2.ncol)]

\* TilePad rounding up unconditionally: (dim/lsize + 1) * lsize - dim.
TilePadAlways(dim, lsize) == ((dim \div lsize) + 1) * lsize - dim

\* multiply_tile: ((dim/lsize) + (dim%lsize != 0)) * lsize - dim
TilePad(dim, lsize) ==
    ((dim \div lsize) + (IF dim % lsize # 0 THEN 1 ELSE 0)) * lsize - dim

(***************************************************************************)
(* State                                                                   *)
(***************************************************************************)
VARIABLES
    \* one call of a multiplication strategy
    fn,      \* the strategy called: "naive", "mkl" or "tile"
    m1, m2,  \* the operands the caller passes
    tsize,   \* the tile size the caller passes (used by multiply_tile)
    pc,      \* position in the called function
    err,     \* the exception that ended the call, "none" while there is none
    live,    \* the locals of the call constructed so far
    nx1, ny1, nx2, ny2,   \* multiply_tile: the paddings
    mat1, mat2,           \* multiply_tile: the padded copies
    ret,                  \* the result matrix
    value,                \* multiply_tile: Block value
    tiler,                \* multiply_tile: Tiler tiler
    it, kt, jt,           \* multiply_tile: the loop indices
    saved,   \* per flat index of ret, how often Block::save has added to it
    prev,    \* value as it was before the last Tiler::multiply
    \* one Matrix object under a sequence of operations
    obj,     \* the Matrix
    other,   \* the argument `other` of the last copy or move construction, after it
    orig,    \* the same argument before that construction
    last     \* the last operation applied, its arguments and its outcome

callVars == <<fn, m1, m2, tsize, pc, err, live, nx1, ny1, nx2, ny2, mat1, mat2,
              ret, value, tiler, it, kt, jt, saved, prev>>

objVars == <<obj, other, orig, last>>

vars == <<callVars, objVars>>

Empty == MatrixSized(0, 0)

NoOp == [op |-> "new", x |-> 0, y |-> 0, v |-> 0, px |-> -1, py |-> -1,
         res |-> "ok", val |-> 0]

(***************************************************************************)
(* The inputs                                                              *)
(***************************************************************************)
\* A matrix built by the caller: Matrix(nrow, ncol) filled through
\* __setitem__ with the values a, a+1, ... (cyclically within Vals), so
\* that neighbouring cells differ and the matrix is not symmetric.
Filled(nrow, ncol, a) ==
    [nrow |-> nrow, ncol |-> ncol,
     buf  |-> [k \in 1..(nrow * ncol) |-> (a + k - 1) % (MaxVal + 1)]]

Strategies == {"naive", "mkl", "tile"}

\* The tile sizes: multiply_tile divides by lsize, so only lsize >= 1 is
\* defined behaviour.
TileSizes == 1..MaxTile

(***************************************************************************)
(* One call of a strategy                                                  *)
(***************************************************************************)
CallInit ==
    /\ fn \in Strategies
    /\ \E r \in 0..MaxRows, c \in 0..MaxInner, a \in Vals : m1 = Filled(r, c, a)
    /\ \E r \in 0..MaxInner, c \in 0..MaxCols, a \in Vals : m2 = Filled(r, c, a)
    /\ tsize \in TileSizes
    /\ (fn # "tile" => tsize = 1)
    /\ pc = "validate"
    /\ err = "none"
    /\ live = {}
    /\ nx1 = 0 /\ ny1 = 0 /\ nx2 = 0 /\ ny2 = 0
    /\ mat1 = Empty /\ mat2 = Empty /\ ret = Empty
    /\ value = BlockNew(0)
    /\ tiler = TilerNew(0)
    /\ it = 0 /\ kt = 0 /\ jt = 0
    /\ saved = << >>
    /\ prev = BlockNew(0)

ObjIdle ==
    /\ obj = Empty /\ other = Empty /\ orig = Empty
    /\ last = NoOp

Throw(e) ==
    /\ pc' = "error"
    /\ err' = e

\* validate_multiplication(mat1, mat2), the first statement of each strategy.
Validate ==
    /\ pc = "validate"
    /\ IF ShapeMismatch(m1, m2)
       THEN Throw("ShapeMismatch")
       ELSE pc' = fn /\ err' = err
    /\ UNCHANGED <<fn, m1, m2, tsize, live, nx1, ny1, nx2, ny2, mat1, mat2, ret,
                   value, tiler, it, kt, jt, saved, prev>>
    /\ UNCHANGED objVars

\* multiply_naive after the validation, to its return.
Naive ==
    /\ pc = "naive"
    /\ LET r == MultiplyNaive(m1, m2)
       IN  IF r.ok
           THEN ret' = r.m /\ pc' = "done" /\ err' = err
           ELSE ret' = MatrixSized(m1.nrow, m2.ncol) /\ Throw("IndexOutOfRange")
    /\ live' = live \cup {"ret"}
    /\ UNCHANGED <<fn, m1, m2, tsize, nx1, ny1, nx2, ny2, mat1, mat2,
                   value, tiler, it, kt, jt, saved, prev>>
    /\ UNCHANGED objVars

\* multiply_mkl after the validation, to its return.
Mkl ==
    /\ pc = "mkl"
    /\ ret' = MultiplyMkl(m1, m2)
    /\ live' = live \cup {"ret"}
    /\ pc' = "done"
    /\ UNCHANGED <<fn, m1, m2, tsize, err, nx1, ny1, nx2, ny2, mat1, mat2,
                   value, tiler, it, kt, jt, saved, prev>>
    /\ UNCHANGED objVars

\* multiply_tile: the paddings, the padded copies, ret, value and tiler.
TileSetup ==
    /\ pc = "tile"
    /\ LET lsize == tsize
           x1 == TilePad(m1.nrow, lsize)
           y1 == TilePad(m1.ncol, lsize)
           x2 == TilePad(m2.nrow, lsize)
           y2 == TilePad(m2.ncol, lsize)
           p1 == PadCopy(m1, x1, y1)
           p2 == PadCopy(m2, x2, y2)
       IN  /\ nx1' = x1 /\ ny1' = y1 /\ nx2' = x2 /\ ny2' = y2
           /\ IF p1.ok /\ p2.ok
              THEN /\ mat1' = p1.m
                   /\ mat2' = p2.m
                   /\ ret' = MatrixSized(p1.m.nrow, p2.m.ncol)
                   /\ saved' = Zeros(p1.m.nrow * p2.m.ncol)
                   /\ value' = BlockNew(lsize)
                   /\ tiler' = TilerNew(lsize)
                   /\ live' = live \cup {"mat1", "mat2", "ret", "value", "tiler"}
                   /\ pc' = "it_loop"
                   /\ err' = err
              ELSE /\ Throw("IndexOutOfRange")
                   /\ live' = IF p1.ok THEN live \cup {"mat1"} ELSE live
                   /\ UNCHANGED <<mat1, mat2, ret, saved, value, tiler>>
    /\ it' = 0
    /\ UNCHANGED <<fn, m1, m2, tsize, kt, jt, prev>>
    /\ UNCHANGED objVars

\* for (size_t it=0; it<mat1.m_nrow; it+=lsize): the loop test.
ItLoop ==
    /\ pc = "it_loop"
    /\ IF it < mat1.nrow
       THEN kt' = 0 /\ pc' = "kt_loop"
       ELSE kt' = kt /\ pc' = "unpad"
    /\ UNCHANGED <<fn, m1, m2, tsize, err, live, nx1, ny1, nx2, ny2, mat1, mat2,
                   ret, value, tiler, it, jt, saved, prev>>
    /\ UNCHANGED objVars

\* for (size_t kt=0; kt<mat2.m_ncol; kt+=lsize): the loop test, and value = 0.
KtLoop ==
    /\ pc = "kt_loop"
    /\ IF kt < mat2.ncol
       THEN /\ value' = BlockFill(value, 0)
            /\ jt' = 0
            /\ it' = it
            /\ pc' = "jt_loop"
       ELSE /\ it' = it + tsize
            /\ pc' = "it_loop"
            /\ UNCHANGED <<value, jt>>
    /\ UNCHANGED <<fn, m1, m2, tsize, err, live, nx1, ny1, nx2, ny2, mat1, mat2,
                   ret, tiler, kt, saved, prev>>
    /\ UNCHANGED objVars

\* for (size_t jt=0; jt<mat1.m_ncol; jt+=lsize): the loop test.
JtLoop ==
    /\ pc = "jt_loop"
    /\ pc' = IF jt < mat1.ncol THEN "load" ELSE "save"
    /\ UNCHANGED <<fn, m1, m2, tsize, err, live, nx1, ny1, nx2, ny2, mat1, mat2,
                   ret, value, tiler, it, kt, jt, saved, prev>>
    /\ UNCHANGED objVars

\* tiler.load(mat1, it, jt, mat2, jt, kt);
Load ==
    /\ pc = "load"
    /\ LET r == TilerLoad(tiler, mat1, it, jt, mat2, jt, kt)
       IN  IF r.ok
           THEN tiler' = r.t /\ pc' = "multiply" /\ err' = err
           ELSE tiler' = tiler /\ Throw("IndexOutOfRange")
    /\ UNCHANGED <<fn, m1, m2, tsize, live, nx1, ny1, nx2, ny2, mat1, mat2,
                   ret, value, it, kt, jt, saved, prev>>
    /\ UNCHANGED objVars

\* tiler.multiply(value); and the step jt += lsize.
Multiply ==
    /\ pc = "multiply"
    /\ LET r == TilerMultiply(tiler, value)
       IN  IF r.ok
           THEN value' = r.b /\ jt' = jt + tsize /\ pc' = "jt_loop" /\ err' = err
           ELSE value' = value /\ jt' = jt /\ Throw("IndexOutOfRange")
    /\ prev' = value
    /\ UNCHANGED <<fn, m1, m2, tsize, live, nx1, ny1, nx2, ny2, mat1, mat2,
                   ret, tiler, it, kt, saved>>
    /\ UNCHANGED objVars

\* value.save(ret, it, kt); and the step kt += lsize.
Save ==
    /\ pc = "save"
    /\ LET r == BlockSave(value, ret, it, kt)
       IN  IF r.ok
           THEN /\ ret' = r.m
                /\ saved' = [p \in 1..Len(saved) |-> saved[p] + r.n[p]]
                /\ kt' = kt + tsize
                /\ pc' = "kt_loop"
                /\ err' = err
           ELSE /\ Throw("IndexOutOfRange")
                /\ UNCHANGED <<ret, saved, kt>>
    /\ UNCHANGED <<fn, m1, m2, tsize, live, nx1, ny1, nx2, ny2, mat1, mat2,
                   value, tiler, it, jt, prev>>
    /\ UNCHANGED objVars

\* ret.unpad(nx1, ny2); return ret;
UnpadRet ==
    /\ pc = "unpad"
    /\ LET r == Unpad(ret, nx1, ny2)
       IN  IF r.ok
           THEN ret' = r.m /\ pc' = "done" /\ err' = err
           ELSE ret' = ret /\ Throw("IndexOutOfRange")
    /\ UNCHANGED <<fn, m1, m2, tsize, live, nx1, ny1, nx2, ny2, mat1, mat2,
                   value, tiler, it, kt, jt, saved, prev>>
    /\ UNCHANGED objVars

Init == CallInit /\ ObjIdle

Next ==
    \/ Validate
    \/ Naive
    \/ Mkl
    \/ TileSetup
    \/ ItLoop
    \/ KtLoop
    \/ JtLoop
    \/ Load
    \/ Multiply
    \/ Save
    \/ UnpadRet

Spec == Init /\ [][Next]_vars

(***************************************************************************)
(* Properties of a call                                                    *)
(***************************************************************************)
\* mat(row, col) of a matrix whose cell (row, col) exists.
Cell(m, row, col) == m.buf[row * m.ncol + col + 1]

\* sum over j of A(i,j) * B(j,k)
DotProduct(A, B, i, k) == SumSeq([q \in 1..A.ncol |-> Cell(A, i, q - 1) * Cell(B, q - 1, k)])

TileDone == fn = "tile" /\ pc = "done"

\* C1: multiply_tile(A, B, t) returns a matrix equal element by element to
\* multiply_naive(A, B): cell (i,k) is the sum over j of A(i,j)*B(j,k), for
\* every tile size t >= 1.
C1_TileEqualsNaive ==
    TileDone =>
        /\ ret = MultiplyNaive(m1, m2).m
        /\ \A i \in 0..(m1.nrow - 1), k \in 0..(m2.ncol - 1) :
               /\ InRange(ret.buf, index(ret, i, k))
               /\ At(ret.buf, index(ret, i, k)) = DotProduct(m1, m2, i, k)

\* A tiled product of two full 2x2 operands with a tile size that exceeds
\* the dimensions, with a non-zero result.
C1_Witness ==
    /\ TileDone
    /\ tsize > m1.nrow /\ tsize > m2.ncol
    /\ m1.nrow = 2 /\ m1.ncol = 2 /\ m2.ncol = 2
    /\ \E p \in 1..Len(ret.buf) : ret.buf[p] > 0

\* C2: the matrix multiply_tile returns has exactly A.rows rows, B.cols
\* columns and a buffer of A.rows*B.cols elements, whether or not t divides
\* the dimensions.
C2_TileShape ==
    TileDone =>
        /\ ret.nrow = m1.nrow
        /\ ret.ncol = m2.ncol
        /\ Len(ret.buf) = m1.nrow * m2.ncol

\* A tiled product returned after padding was added in both directions.
C2_Witness ==
    /\ TileDone
    /\ nx1 > 0 /\ ny2 > 0
    /\ m1.nrow % tsize # 0 /\ m2.ncol % tsize # 0 /\ m1.ncol % tsize # 0
    /\ m1.nrow > 0 /\ m2.ncol > 0

\* C3: validation fails with ShapeMismatch exactly when lhs.cols != rhs.rows,
\* and every strategy validates first: on mismatched shapes the call ends in
\* the error state with no padded copy, result, Block or Tiler constructed.
C3_ValidationFirst ==
    /\ (pc # "validate") => ((err = "ShapeMismatch") <=> (m1.ncol # m2.nrow))
    /\ (m1.ncol # m2.nrow) =>
           /\ pc \in {"validate", "error"}
           /\ live = {}
           /\ mat1 = Empty /\ mat2 = Empty /\ ret = Empty
           /\ value = BlockNew(0) /\ tiler = TilerNew(0)

\* multiply_tile rejected on mismatched shapes.
C3_Witness ==
    /\ fn = "tile"
    /\ pc = "error"
    /\ err = "ShapeMismatch"
    /\ m1.ncol # m2.nrow

\* The padding the spec gives for a dimension.
SpecPad(dim, t) == (t - (dim % t)) % t

\* dim + pad is the smallest multiple of t that is >= dim.
SmallestMultiple(dim, pad, t) ==
    /\ pad >= 0
    /\ (dim + pad) % t = 0
    /\ \A q \in 0..(pad - 1) : (dim + q) % t # 0

\* Every cell of the padded copy inside the source equals the source cell,
\* every other cell is zero.
PaddedCopyOf(p, m) ==
    \A i \in 0..(p.nrow - 1), j \in 0..(p.ncol - 1) :
        /\ InRange(p.buf, index(p, i, j))
        /\ Cell(p, i, j) = IF i < m.nrow /\ j < m.ncol THEN Cell(m, i, j) ELSE 0

\* C8: in multiply_tile the padding of each of the four operand dimensions
\* is (t - (dim % t)) % t, each padded dimension is the smallest multiple of
\* t that is >= dim, the padding is 0 when t divides dim, and the padded
\* copies hold the source cells inside the source bounds and zero outside.
C8_Padding ==
    (fn = "tile" /\ "mat1" \in live /\ "mat2" \in live) =>
        /\ nx1 = SpecPad(m1.nrow, tsize) /\ ny1 = SpecPad(m1.ncol, tsize)
        /\ nx2 = SpecPad(m2.nrow, tsize) /\ ny2 = SpecPad(m2.ncol, tsize)
        /\ SmallestMultiple(m1.nrow, nx1, tsize) /\ SmallestMultiple(m1.ncol, ny1, tsize)
        /\ SmallestMultiple(m2.nrow, nx2, tsize) /\ SmallestMultiple(m2.ncol, ny2, tsize)
        /\ (m1.nrow % tsize = 0 => nx1 = 0) /\ (m1.ncol % tsize = 0 => ny1 = 0)
        /\ (m2.nrow % tsize = 0 => nx2 = 0) /\ (m2.ncol % tsize = 0 => ny2 = 0)
        /\ mat1.nrow = m1.nrow + nx1 /\ mat1.ncol = m1.ncol + ny1
        /\ mat2.nrow = m2.nrow + nx2 /\ mat2.ncol = m2.ncol + ny2
        /\ PaddedCopyOf(mat1, m1)
        /\ PaddedCopyOf(mat2, m2)

\* Padded copies built where t divides one dimension of the left operand
\* and not the other, the source holding a non-zero cell.
C8_Witness ==
    /\ fn = "tile" /\ "mat1" \in live /\ "mat2" \in live
    /\ tsize = 2
    /\ m1.nrow = 2 /\ m1.ncol = 1 /\ m2.ncol = 1
    /\ nx1 = 0 /\ ny1 = 1 /\ nx2 = 1 /\ ny2 = 1
    /\ \E p \in 1..Len(m1.buf) : m1.buf[p] > 0

\* The Tiler holds the tiles of mat1 at (it, jt0) and of mat2 at (jt0, kt),
\* the right one transposed.
LoadedTile(jt0) ==
    LET N == tiler.NDIM
    IN  /\ N = tsize
        /\ Len(tiler.m_mat1.buf) = N * N /\ Len(tiler.m_mat2.buf) = N * N
        /\ \A r \in 0..(N - 1), c \in 0..(N - 1) :
               /\ tiler.m_mat1.buf[r * N + c + 1] = Cell(mat1, it + r, jt0 + c)
               /\ tiler.m_mat2.buf[c * N + r + 1] = Cell(mat2, jt0 + r, kt + c)

\* The accumulator grew by the product of the tiles at reduction offset jt0.
Accumulated(jt0) ==
    LET N == tiler.NDIM
    IN  /\ Len(value.buf) = N * N /\ Len(prev.buf) = N * N
        /\ \A i \in 0..(N - 1), k \in 0..(N - 1) :
               value.buf[i * N + k + 1] =
                   prev.buf[i * N + k + 1]
                   + SumSeq([q \in 1..N |-> Cell(mat1, it + i, jt0 + q - 1)
                                          * Cell(mat2, jt0 + q - 1, kt + k)])

\* C9: after Tiler.load the left block holds the tile of mat1 row-major and
\* the right block the tile of mat2 transposed; Tiler.multiply then adds to
\* accumulator(i,k) the sum over j of mat1(it+i, jt+j) * mat2(jt+j, kt+k) and
\* leaves the loaded blocks as they were.
C9_LoadAndMultiply ==
    /\ (fn = "tile" /\ pc = "multiply") => LoadedTile(jt)
    /\ (fn = "tile" /\ pc = "jt_loop" /\ jt > 0) =>
           /\ LoadedTile(jt - tsize)
           /\ Accumulated(jt - tsize)

\* The second multiply of a reduction over two tiles has added to a
\* non-zero accumulator.
C9_Witness ==
    /\ fn = "tile" /\ pc = "jt_loop"
    /\ tsize = 1 /\ jt = 2
    /\ \E p \in 1..Len(prev.buf) : prev.buf[p] > 0 /\ value.buf[p] > prev.buf[p]
    /\ m1.nrow = 2 /\ m2.ncol = 2

\* C10: no step of multiply_tile raises IndexOutOfRange, and over the grid
\* walk each cell of the padded result receives exactly one Block.save
\* addition.
C10_InRangeAndSavedOnce ==
    fn = "tile" =>
        /\ err # "IndexOutOfRange"
        /\ \A p \in 1..Len(saved) : saved[p] <= 1
        /\ (pc \in {"unpad", "done"}) =>
               /\ Len(saved) = mat1.nrow * mat2.ncol
               /\ \A p \in 1..Len(saved) : saved[p] = 1
        /\ (pc \in {"it_loop", "kt_loop", "jt_loop", "load", "multiply", "save", "unpad"}) =>
               Len(saved) = Len(ret.buf)

\* The grid walk of a 2x2 by 2x2 product with tile size 1 has ended: four
\* saves into a four-cell result.
C10_Witness ==
    /\ fn = "tile" /\ pc = "unpad"
    /\ tsize = 1
    /\ mat1.nrow = 2 /\ mat2.ncol = 2 /\ mat1.ncol = 2
    /\ Len(saved) = 4
    /\ \E p \in 1..Len(ret.buf) : ret.buf[p] > 0

(***************************************************************************)
(* One Matrix object under its constructors, unpad and element access      *)
(***************************************************************************)
CallIdle ==
    /\ fn = "none"
    /\ m1 = Empty /\ m2 = Empty
    /\ tsize = 1
    /\ pc = "idle"
    /\ err = "none"
    /\ live = {}
    /\ nx1 = 0 /\ ny1 = 0 /\ nx2 = 0 /\ ny2 = 0
    /\ mat1 = Empty /\ mat2 = Empty /\ ret = Empty
    /\ value = BlockNew(0)
    /\ tiler = TilerNew(0)
    /\ it = 0 /\ kt = 0 /\ jt = 0
    /\ saved = << >>
    /\ prev = BlockNew(0)

\* The nested sequences a caller passes: up to MaxRows rows of one length,
\* up to MaxCols (the constructor takes the length of the first row for all).
RowLengths == {[r \in 1..n |-> c] : n \in 0..MaxRows, c \in 0..MaxCols}

NestedRows(lens, a) ==
    [r \in 1..Len(lens) |->
        [k \in 1..lens[r] |-> (a + (r - 1) * (MaxCols + 1) + k - 1) % (MaxVal + 1)]]

Op(name, x, y, v, res, val) ==
    [op |-> name, x |-> x, y |-> y, v |-> v, px |-> -1, py |-> -1,
     res |-> res, val |-> val]

\* No Matrix has been constructed yet.
ObjInit ==
    /\ obj = Empty /\ other = Empty /\ orig = Empty
    /\ last = NoOp

\* The object exists: a constructor has returned, and no crash ended the run.
Alive == last.op # "new" /\ last.res # "crash"

\* Matrix(nrow, ncol)
ConstructSized ==
    \E r \in 0..MaxRows, c \in 0..MaxCols :
        /\ last.op = "new"
        /\ obj' = MatrixSized(r, c)
        /\ other' = Empty /\ orig' = Empty
        /\ last' = Op("sized", r, c, 0, "ok", 0)
        /\ UNCHANGED callVars

\* Matrix(nested).  For an empty outer sequence other[0] does not exist and
\* reading its size is undefined: the call crashes, or m_ncol takes whatever
\* the read yields while m_nrow is 0 and the buffer stays empty.
ConstructNested ==
    \E lens \in RowLengths, a \in Vals :
        LET rows == NestedRows(lens, a)
        IN  /\ last.op = "new"
            /\ IF Len(rows) = 0
               THEN \/ /\ last' = Op("nested", 0, 0, 0, "crash", 0)
                       /\ UNCHANGED <<obj, other, orig>>
                    \/ \E g \in 0..MaxCols :
                       /\ obj' = [nrow |-> 0, ncol |-> g, buf |-> << >>]
                       /\ other' = Empty /\ orig' = Empty
                       /\ last' = Op("nested", 0, g, 0, "ok", 0)
               ELSE /\ obj' = FromNested(rows)
                    /\ other' = Empty /\ orig' = Empty
                    /\ last' = Op("nested", Len(rows), Len(rows[1]), 0, "ok", 0)
            /\ UNCHANGED callVars

\* Matrix(obj, x_pad, y_pad): obj becomes the padded copy.  As in
\* multiply_tile, the only caller, the copy is taken of a matrix the caller
\* built.
ConstructPadded ==
    \E x \in 0..MaxPad, y \in 0..MaxPad :
        /\ Alive
        /\ last.op \in {"sized", "nested"}
        /\ LET r == PadCopy(obj, x, y)
           IN  IF r.ok
               THEN /\ obj' = r.m
                    /\ other' = obj /\ orig' = obj
                    /\ last' = Op("pad", x, y, 0, "ok", 0)
               ELSE /\ last' = Op("pad", x, y, 0, "IndexOutOfRange", 0)
                    /\ UNCHANGED <<obj, other, orig>>
        /\ UNCHANGED callVars

\* obj.unpad(x_pad, y_pad), with the paddings of the padded copy it follows
\* kept in px, py.
DoUnpad ==
    \E x \in 0..MaxPad, y \in 0..MaxPad :
        /\ Alive
        /\ x <= obj.nrow /\ y <= obj.ncol
        /\ LET r == Unpad(obj, x, y)
               after == last.op = "pad" /\ last.res = "ok"
               o == Op("unpad", x, y, 0, IF r.ok THEN "ok" ELSE "IndexOutOfRange", 0)
           IN  /\ obj' = IF r.ok THEN r.m ELSE obj
               /\ last' = [o EXCEPT !.px = IF after THEN last.x ELSE -1,
                                    !.py = IF after THEN last.y ELSE -1]
        /\ UNCHANGED <<other, orig>>
        /\ UNCHANGED callVars

\* Matrix(std::move(obj)): obj becomes the new matrix, other the moved-from one.
MoveConstruct ==
    /\ Alive
    /\ obj' = MoveNew(obj)
    /\ other' = MoveOld(obj)
    /\ orig' = obj
    /\ last' = Op("move", 0, 0, 0, "ok", 0)
    /\ UNCHANGED callVars

\* __getitem__: mat1(i.first, i.second), m_buffer.at(index(row, col))
GetItem ==
    \E row \in 0..MaxRows, col \in 0..MaxCols :
        /\ Alive
        /\ last' = IF InRange(obj.buf, index(obj, row, col))
                   THEN Op("get", row, col, 0, "ok", At(obj.buf, index(obj, row, col)))
                   ELSE Op("get", row, col, 0, "IndexOutOfRange", 0)
        /\ UNCHANGED <<obj, other, orig>>
        /\ UNCHANGED callVars

\* __setitem__: mat1(i.first, i.second) = v
SetItem ==
    \E row \in 0..MaxRows, col \in 0..MaxCols, v \in Vals :
        /\ Alive
        /\ IF InRange(obj.buf, index(obj, row, col))
           THEN /\ obj' = [obj EXCEPT !.buf[index(obj, row, col) + 1] = v]
                /\ last' = Op("set", row, col, v, "ok", 0)
           ELSE /\ obj' = obj
                /\ last' = Op("set", row, col, v, "IndexOutOfRange", 0)
        /\ UNCHANGED <<other, orig>>
        /\ UNCHANGED callVars

MatrixInit == CallIdle /\ ObjInit

NextMatrix ==
    \/ ConstructSized
    \/ ConstructNested
    \/ ConstructPadded
    \/ DoUnpad
    \/ MoveConstruct

SpecMatrix == MatrixInit /\ [][NextMatrix]_vars

NextAccess ==
    \/ ConstructSized
    \/ ConstructNested
    \/ GetItem
    \/ SetItem

SpecAccess == MatrixInit /\ [][NextAccess]_vars

(***************************************************************************)
(* Properties of a Matrix object                                           *)
(***************************************************************************)
\* C4: element access by (row, col) is bounds-checked against rows and cols:
\* an access with row >= rows or col >= cols fails with IndexOutOfRange and
\* neither returns nor modifies an element.
C4_AccessChecked ==
    (last.op \in {"get", "set"} /\ (last.x >= obj.nrow \/ last.y >= obj.ncol)) =>
        last.res = "IndexOutOfRange"

\* C5: for non-negative x, y the padded copy Matrix(M, x, y) is constructed
\* (it does not throw), and unpad(x, y) on it yields a matrix with the rows,
\* the cols and the element sequence of M.
C5_PadUnpadRoundTrip ==
    /\ (last.op = "pad") => (last.res = "ok")
    /\ (last.op = "unpad" /\ last.px = last.x /\ last.py = last.y) =>
           /\ last.res = "ok"
           /\ obj.nrow = orig.nrow
           /\ obj.ncol = orig.ncol
           /\ obj.buf = orig.buf

\* A 2x2 matrix of non-zero cells padded by (1, 2) and unpadded by (1, 2).
C5_Witness ==
    /\ last.op = "unpad" /\ last.res = "ok"
    /\ last.x = 1 /\ last.y = 2 /\ last.px = 1 /\ last.py = 2
    /\ orig.nrow = 2 /\ orig.ncol = 2
    /\ \E p \in 1..Len(orig.buf) : orig.buf[p] > 0

SizedRight(m) == Len(m.buf) = m.nrow * m.ncol

\* C6: buffer.length == rows*cols for every Matrix: after construction by
\* size, by padding copy, by move (the new matrix and the moved-from one),
\* from a nested sequence of uniform rows, and after unpad(x, y) with
\* 0 <= x <= rows and 0 <= y <= cols.
C6_BufferLength ==
    SizedRight(obj) /\ SizedRight(other) /\ SizedRight(orig)

\* A non-empty matrix has been moved from.
C6_Witness ==
    /\ last.op = "move"
    /\ other.nrow = 2 /\ other.ncol = 2
    /\ \E p \in 1..Len(orig.buf) : orig.buf[p] > 0

\* C7 as stated: after the move the new matrix has the source's rows, cols
\* and elements, and the moved-from source holds an empty buffer.
C7_SourceEmptied ==
    (last.op = "move") =>
        /\ obj.nrow = orig.nrow /\ obj.ncol = orig.ncol /\ obj.buf = orig.buf
        /\ Len(other.buf) = 0

\* C7, amended: after the move the new matrix has the source's rows, cols
\* and elements; the moved-from source keeps its rows and cols and holds a
\* zero-filled buffer of rows*cols elements, empty only when rows*cols = 0.
C7_MoveTransfers ==
    (last.op = "move") =>
        /\ obj.nrow = orig.nrow /\ obj.ncol = orig.ncol /\ obj.buf = orig.buf
        /\ other.nrow = orig.nrow /\ other.ncol = orig.ncol
        /\ Len(other.buf) = orig.nrow * orig.ncol
        /\ \A p \in 1..Len(other.buf) : other.buf[p] = 0

\* A matrix with a non-zero cell has been moved: the new matrix holds the
\* cell, the source holds zeros.
C7_Witness ==
    /\ last.op = "move"
    /\ Len(other.buf) > 0
    /\ \E p \in 1..Len(obj.buf) : obj.buf[p] > 0 /\ other.buf[p] = 0

====
